---- MODULE Spec2Model ----
(***************************************************************************)
(* Model of apps/issuer/api.py: the badge class, assertion issuance and    *)
(* revocation endpoints, as request handlers over the stored badge         *)
(* classes, badge instances and badgebook award records.                   *)
(***************************************************************************)
EXTENDS Integers, Sequences, FiniteSets, TLC

\* ------------------------------------------------------------------------
\* Bounds of the model
\* ------------------------------------------------------------------------
MaxInstances == 2
MaxBatch == 2
MaxRevokers == 2
MaxWorkers == 2

\* ------------------------------------------------------------------------
\* Fixture: users, issuers and the roles users hold on issuers
\* ------------------------------------------------------------------------
Users == {"alice", "bob"}
Issuers == {"acme", "globex"}
BadgeSlugs == {"excellence", "merit"}
Recipients == {"r1@example.org", "r2@example.org"}
Reasons == {"policy violation", "issued in error"}
Names == {"Excellence", "Merit"}
Images == {"png-a", "png-b"}
NoReason == "None"
NoImage == "None"

\* IssuerStaff rows: the role a user holds on an issuer.
Role(user, issuer) ==
    CASE user = "alice" /\ issuer = "acme"   -> "owner"
      [] user = "bob"   /\ issuer = "acme"   -> "staff"
      [] user = "bob"   /\ issuer = "globex" -> "editor"
      [] OTHER                               -> "none"

\* issuer.permissions: safe methods need any role on the issuer, unsafe
\* methods need the owner or editor role.
IsEditor(method, user, issuer) ==
    IF method = "GET"
    THEN Role(user, issuer) \in {"owner", "editor", "staff"}
    ELSE Role(user, issuer) \in {"owner", "editor"}

MayEditBadgeClass(method, user, issuer) == IsEditor(method, user, issuer)

IsStaff(user, issuer) == Role(user, issuer) \in {"owner", "editor", "staff"}

MayIssueBadgeClass(user, issuer) == IsStaff(user, issuer)

\* ------------------------------------------------------------------------
\* State
\* ------------------------------------------------------------------------
VARIABLES
    badgeclasses,   \* BadgeClass rows: slug -> row, for the slugs that exist
    instances,      \* BadgeInstance rows in creation order; the slug is the index
    awards,         \* badgebook BadgeObjectiveAward rows: the instance ids they reference
    badgebook,      \* apps.is_installed('badgebook')
    revokedEvents,  \* BadgeAssertionRevoked events logged so far, per instance
    revoked200,     \* 200 responses to revoke requests so far, per instance
    effects,        \* side effects of the last request, in the order the handler made them
    req,            \* the last request
    resp,           \* the response to the last request
    pc,             \* position of each in-flight revoke request
    local,          \* each in-flight revoke request's current_assertion and inputs
    inflight        \* each in-flight issue or badge class delete request: its position and what it read

vars == <<badgeclasses, instances, awards, badgebook, revokedEvents, revoked200,
          effects, req, resp, pc, local, inflight>>

Revokers == 1..MaxRevokers
Workers == 1..MaxWorkers
InstanceIds == 1..MaxInstances

\* A request: the endpoint, the caller, the badge class or issuer slug and the
\* assertion slug of the URL, one scalar parameter, and the body when the
\* endpoint reads a structured one.
NoBody == [none |-> TRUE]

RequestWith(op, user, slug, id, arg, body) ==
    [op |-> op, user |-> user, slug |-> slug, id |-> id, arg |-> arg, body |-> body]

Request(op, user, slug, id, arg) == RequestWith(op, user, slug, id, arg, NoBody)

NoRequest == Request("none", "none", "None", 0, "None")

Response(status, msg, data) ==
    [status |-> status, msg |-> msg, data |-> data]

Effect(kind, obj, user) == [kind |-> kind, obj |-> obj, user |-> user]

\* The representation a serializer renders for a badge class row.
BadgeClassJson(slug, row) ==
    [slug |-> slug, issuer |-> row.issuer, name |-> row.name, image |-> row.image]

\* The representation a serializer renders for a badge instance row.
InstanceJson(id, row) ==
    [slug |-> id, badgeclass |-> row.badgeclass, issuer |-> row.issuer, recipient_identifier |-> row.recipient_identifier,
     revoked |-> row.revoked, revocation_reason |-> row.revocation_reason, image |-> row.image]

\* BadgeClass.recipient_count(): the instances issued from the badge class.
recipient_count(slug) ==
    Cardinality({i \in 1..Len(instances) : instances[i].badgeclass = slug})

Existing == 1..Len(instances)

\* The row and the inputs of a revoke request that is not in flight.
NoRow ==
    [badgeclass |-> "None", issuer |-> "None", recipient_identifier |-> "None",
     revoked |-> FALSE, revocation_reason |-> NoReason, image |-> NoImage]

Idle == [user |-> "none", id |-> 0, reason |-> NoReason, current_assertion |-> NoRow]

\* An issue or badge class delete request that is not in flight.
NoClassRow ==
    [issuer |-> "None", name |-> "None", image |-> NoImage,
     pathway_elements |-> 0, completion_elements |-> 0]

Resting ==
    [at |-> "idle", user |-> "none", slug |-> "None", current_badgeclass |-> NoClassRow,
     recipient_identifier |-> "None"]

Init ==
    /\ badgeclasses = << >>
    /\ instances = << >>
    /\ awards = {}
    /\ badgebook = FALSE
    /\ revokedEvents = [i \in InstanceIds |-> 0]
    /\ revoked200 = [i \in InstanceIds |-> 0]
    /\ effects = << >>
    /\ req = NoRequest
    /\ resp = Response(0, "", << >>)
    /\ pc = [p \in Revokers |-> "idle"]
    /\ local = [p \in Revokers |-> Idle]
    /\ inflight = [w \in Workers |-> Resting]

\* A handler that answers without touching stored data.
Answer(q, r) ==
    /\ req' = q
    /\ resp' = r
    /\ effects' = << >>
    /\ UNCHANGED <<badgeclasses, instances, awards, badgebook, revokedEvents, revoked200, pc, local, inflight>>

\* ------------------------------------------------------------------------
\* BadgeClassList.post: define a new badge class under an issuer
\* ------------------------------------------------------------------------
\* The issuer each badge class of the fixture is defined under.
HomeIssuer(slug) == IF slug = "excellence" THEN "acme" ELSE "globex"

BadgeClassPayloads ==
    [slug : BadgeSlugs, name : {"Excellence"}, image : {"png-a"}, valid : BOOLEAN]

BadgeClassList_post(user, issuerSlug, data) ==
    LET q == Request("BadgeClassList.post", user, data.slug, 0, issuerSlug) IN
    IF ~IsEditor("POST", user, issuerSlug)
    THEN Answer(q, Response(404, "Issuer not found or inadequate permissions.", <<[slug |-> issuerSlug]>>))
    ELSE IF ~data.valid \/ data.slug \in DOMAIN badgeclasses
    THEN Answer(q, Response(400, "ValidationError", << >>))
    ELSE LET row == [issuer |-> issuerSlug, name |-> data.name, image |-> data.image,
                     pathway_elements |-> 0, completion_elements |-> 0]
             json == BadgeClassJson(data.slug, row)
         IN /\ badgeclasses' = [s \in DOMAIN badgeclasses \cup {data.slug} |->
                                   IF s = data.slug THEN row ELSE badgeclasses[s]]
            /\ effects' = <<Effect("save", json, user), Effect("BadgeClassCreated", json, user)>>
            /\ req' = q
            /\ resp' = Response(201, "", <<json>>)
            /\ UNCHANGED <<instances, awards, badgebook, revokedEvents, revoked200, pc, local, inflight>>

\* ------------------------------------------------------------------------
\* BadgeClassDetail: GET, DELETE and PUT of one badge class
\* ------------------------------------------------------------------------
\* BadgeClass.cached.get(slug=...) followed by check_object_permissions:
\* TRUE when neither BadgeClass.DoesNotExist nor PermissionDenied is raised.
BadgeClassResolved(method, user, badgeSlug) ==
    /\ badgeSlug \in DOMAIN badgeclasses
    /\ MayEditBadgeClass(method, user, badgeclasses[badgeSlug].issuer)

\* A handler that lets PermissionDenied escape its except clause: the
\* framework answers 403 for a badge class that exists.
BadgeClassNotFound_Uncaught(op, badgeSlug) ==
    IF badgeSlug \in DOMAIN badgeclasses
    THEN Response(403, "You do not have permission to perform this action.", << >>)
    ELSE IF op = "BadgeClassDetail.delete"
    THEN Response(404, "", << >>)
    ELSE Response(404, "BadgeClass could not be found, or inadequate permissions.",
                  <<[slug |-> badgeSlug]>>)

\* The except (BadgeClass.DoesNotExist, PermissionDenied) branches.
BadgeClassNotFound(op, badgeSlug) ==
    IF op = "BadgeClassDetail.delete"
    THEN Response(404, "", << >>)
    ELSE Response(404, "BadgeClass could not be found, or inadequate permissions.",
                  <<[slug |-> badgeSlug]>>)

BadgeClassDetail_get(user, badgeSlug) ==
    LET q == Request("BadgeClassDetail.get", user, badgeSlug, 0, "None") IN
    IF ~BadgeClassResolved("GET", user, badgeSlug)
    THEN Answer(q, BadgeClassNotFound(q.op, badgeSlug))
    ELSE Answer(q, Response(200, "", <<BadgeClassJson(badgeSlug, badgeclasses[badgeSlug])>>))

AlreadyIssued == "Badge could not be deleted. It has already been issued at least once."
UsedAsRequirement == "Badge could not be deleted. It is being used as a pathway completion requirement."
UsedAsCompletionBadge == "Badge could not be deleted. It is being used as a pathway completion badge."
Deletable == "deletable"

\* A delete that tests the pathway uses before the assertions and forgets
\* the completion badge use.
DeleteRefusal_Reordered(badgeSlug) ==
    IF badgeclasses[badgeSlug].pathway_elements > 0 THEN UsedAsRequirement
    ELSE IF recipient_count(badgeSlug) > 0 THEN AlreadyIssued
    ELSE Deletable

\* The if/elif chain of delete: the message of the first check that fails.
DeleteRefusal(badgeSlug) ==
    IF recipient_count(badgeSlug) > 0 THEN AlreadyIssued
    ELSE IF badgeclasses[badgeSlug].pathway_elements > 0 THEN UsedAsRequirement
    ELSE IF badgeclasses[badgeSlug].completion_elements > 0 THEN UsedAsCompletionBadge
    ELSE Deletable

BadgeClassDetail_delete(user, badgeSlug) ==
    LET q == Request("BadgeClassDetail.delete", user, badgeSlug, 0, "None") IN
    IF ~BadgeClassResolved("DELETE", user, badgeSlug)
    THEN Answer(q, BadgeClassNotFound(q.op, badgeSlug))
    ELSE IF DeleteRefusal(badgeSlug) # Deletable
    THEN Answer(q, Response(400, DeleteRefusal(badgeSlug), << >>))
    ELSE LET old_badgeclass == BadgeClassJson(badgeSlug, badgeclasses[badgeSlug]) IN
         /\ badgeclasses' = [s \in DOMAIN badgeclasses \ {badgeSlug} |-> badgeclasses[s]]
         /\ effects' = <<Effect("delete", old_badgeclass, user),
                         Effect("BadgeClassDeleted", old_badgeclass, user)>>
         /\ req' = q
         /\ resp' = Response(200, "Badge has been deleted.", <<[slug |-> badgeSlug]>>)
         /\ UNCHANGED <<instances, awards, badgebook, revokedEvents, revoked200, pc, local, inflight>>

\* The image of a PUT payload: absent, a URL string, an uploaded file or a
\* data-URI string; content is the picture an upload or a data URI carries.
PutImages ==
    [kind : {"absent", "url"}, content : {NoImage}]
        \cup [kind : {"uploaded", "datauri"}, content : {"png-b"}]

PutPayloads == [image : PutImages, name : {"Merit"}, valid : BOOLEAN]

\* urlparse.urlparse(new_image).scheme of an image given as a string.
UrlScheme(image) == IF image.kind = "datauri" THEN "data" ELSE "http"

BadgeClassDetail_put(user, badgeSlug, data) ==
    LET q == RequestWith("BadgeClassDetail.put", user, badgeSlug, 0, data.image.kind, data) IN
    IF ~BadgeClassResolved("PUT", user, badgeSlug)
    THEN Answer(q, BadgeClassNotFound(q.op, badgeSlug))
    ELSE IF data.image.kind = "absent"
    \* request.data.get('image') is None: urlparse.urlparse(None) raises
    \* AttributeError, and cleaned_data.pop('image') would raise KeyError.
    THEN Answer(q, Response(500, "AttributeError", << >>))
    ELSE LET dropped == data.image.kind # "uploaded" /\ UrlScheme(data.image) # "data"
             old == badgeclasses[badgeSlug]
             row == [old EXCEPT !.name = data.name,
                                !.image = IF dropped THEN old.image ELSE data.image.content]
         IN IF ~data.valid
            THEN Answer(q, Response(400, "ValidationError", << >>))
            ELSE /\ badgeclasses' = [badgeclasses EXCEPT ![badgeSlug] = row]
                 /\ effects' = <<Effect("save", BadgeClassJson(badgeSlug, row), user)>>
                 /\ req' = q
                 /\ resp' = Response(200, "", <<BadgeClassJson(badgeSlug, row)>>)
                 /\ UNCHANGED <<instances, awards, badgebook, revokedEvents, revoked200, pc, local, inflight>>

\* The pathway subsystem starts or stops using a badge class as a completion
\* requirement (pathway_element_count) or as a completion badge
\* (cached_completion_elements).
PathwayReference(badgeSlug, field, n) ==
    /\ badgeSlug \in DOMAIN badgeclasses
    /\ badgeclasses' = [badgeclasses EXCEPT ![badgeSlug] =
           IF field = "requirement"
           THEN [@ EXCEPT !.pathway_elements = n]
           ELSE [@ EXCEPT !.completion_elements = n]]
    /\ badgeclasses' # badgeclasses
    /\ req' = NoRequest
    /\ resp' = Response(0, "", << >>)
    /\ effects' = << >>
    /\ UNCHANGED <<instances, awards, badgebook, revokedEvents, revoked200, pc, local, inflight>>

\* ------------------------------------------------------------------------
\* BadgeInstanceList.post: issue a badge to one recipient
\* ------------------------------------------------------------------------
\* AbstractIssuerAPIEndpoint.get_object over BadgeClass rows of the issuer in
\* the URL, with MayIssueBadgeClass: TRUE when it returns a badge class.
BadgeClassToIssue(user, issuerSlug, badgeSlug) ==
    /\ badgeSlug \in DOMAIN badgeclasses
    /\ badgeclasses[badgeSlug].issuer = issuerSlug
    /\ MayIssueBadgeClass(user, issuerSlug)

AssertionPayloads == [recipient_identifier : Recipients, valid : BOOLEAN]

\* The row BadgeInstanceSerializer.save creates for one validated item.
NewInstance(badgeSlug, item) ==
    [badgeclass |-> badgeSlug, issuer |-> badgeclasses[badgeSlug].issuer, recipient_identifier |-> item.recipient_identifier,
     revoked |-> FALSE, revocation_reason |-> NoReason, image |-> "baked"]

BadgeInstanceList_post(user, issuerSlug, badgeSlug, data) ==
    LET q == Request("BadgeInstanceList.post", user, badgeSlug, 0, issuerSlug) IN
    IF ~BadgeClassToIssue(user, issuerSlug, badgeSlug)
    THEN Answer(q, Response(404, "Issuer not found or current user lacks permission to issue this badge.", << >>))
    ELSE IF ~data.valid
    THEN Answer(q, Response(400, "ValidationError", << >>))
    ELSE /\ Len(instances) < MaxInstances
         /\ LET row == NewInstance(badgeSlug, data)
                id == Len(instances) + 1
                json == InstanceJson(id, row)
            IN /\ instances' = Append(instances, row)
               /\ effects' = <<Effect("save", json, user), Effect("BadgeInstanceCreated", json, user)>>
               /\ req' = [q EXCEPT !.id = id]
               /\ resp' = Response(201, "", <<json>>)
         /\ UNCHANGED <<badgeclasses, awards, badgebook, revokedEvents, revoked200, pc, local, inflight>>

\* BadgeInstanceList.get: the assertions issued from one badge class.
\* A listing whose queryset is not filtered by revoked.
NotRevoked_Unfiltered(json) == TRUE

\* filter(revoked=False)
NotRevoked(json) == ~json.revoked

AllInstanceJson == [i \in 1..Len(instances) |-> InstanceJson(i, instances[i])]

OfBadgeClass(badgeSlug, seq) ==
    LET Test(json) == json.badgeclass = badgeSlug IN SelectSeq(seq, Test)

OfIssuer(issuerSlug, seq) ==
    LET Test(json) == json.issuer = issuerSlug IN SelectSeq(seq, Test)

OfRecipient(recipient, seq) ==
    LET Test(json) == json.recipient_identifier = recipient IN SelectSeq(seq, Test)

BadgeInstanceList_get(user, issuerSlug, badgeSlug) ==
    LET q == Request("BadgeInstanceList.get", user, badgeSlug, 0, issuerSlug) IN
    IF ~BadgeClassToIssue(user, issuerSlug, badgeSlug)
    THEN Answer(q, Response(404, "BadgeClass not found or inadequate permissions.",
                            <<[slug |-> badgeSlug]>>))
    ELSE LET badge_instances == SelectSeq(OfBadgeClass(badgeSlug, AllInstanceJson), NotRevoked) IN
         IF badge_instances = << >>
         THEN Answer(q, Response(200, "", << >>))
         ELSE Answer(q, Response(200, "", badge_instances))

\* ------------------------------------------------------------------------
\* IssuerBadgeInstanceList.get: assertions of an issuer, by recipient
\* ------------------------------------------------------------------------
NoRecipient == "None"

IssuerBadgeInstanceList_get(user, issuerSlug, recipient) ==
    LET q == Request("IssuerBadgeInstanceList.get", user, issuerSlug, 0, recipient) IN
    IF ~IsStaff(user, issuerSlug)
    THEN Answer(q, Response(404, "", << >>))
    ELSE LET badgeinstance_set == OfIssuer(issuerSlug, AllInstanceJson)
             found == IF recipient # NoRecipient
                      THEN SelectSeq(OfRecipient(recipient, badgeinstance_set), NotRevoked)
                      ELSE SelectSeq(badgeinstance_set, NotRevoked)
         IN Answer(q, Response(200, "", found))

\* ------------------------------------------------------------------------
\* BadgeInstanceDetail: GET one assertion, DELETE to revoke it
\* ------------------------------------------------------------------------
BadgeInstanceDetail_get(user, assertionSlug) ==
    LET q == Request("BadgeInstanceDetail.get", user, "None", assertionSlug, "None") IN
    IF assertionSlug \notin Existing
    THEN Answer(q, Response(404, "", << >>))
    ELSE Answer(q, Response(200, "", <<InstanceJson(assertionSlug, instances[assertionSlug])>>))

\* AbstractIssuerAPIEndpoint.get_object over BadgeInstance rows with
\* MayEditBadgeClass: TRUE when it returns the assertion.
AssertionResolved(method, user, assertionSlug) ==
    /\ assertionSlug \in Existing
    /\ MayEditBadgeClass(method, user, instances[assertionSlug].issuer)

\* current_assertion after the handler has set revoked and revocation_reason
\* and deleted the baked image.
RevokedRow(row, reason) ==
    [row EXCEPT !.revoked = TRUE, !.revocation_reason = reason, !.image = NoImage]

\* The badgebook branch finds and deletes the award of the assertion:
\* badgebook is installed, its models import, and an award references the id.
AwardDeleted(id, importable) == badgebook /\ importable /\ id \in awards

\* A revocation that logs the event before it touches the row.
RevokeEffects_EventFirst(id, current, user, award) ==
    <<Effect("BadgeAssertionRevoked", InstanceJson(id, current), user),
      Effect("image.delete", InstanceJson(id, current), user),
      Effect("save", InstanceJson(id, current), user)>>
    \o (IF award THEN <<Effect("award.delete", InstanceJson(id, current), user)>> ELSE << >>)

\* The side effects of a revocation, in the order of the statements.
RevokeEffects(id, current, user, award) ==
    <<Effect("image.delete", InstanceJson(id, current), user),
      Effect("save", InstanceJson(id, current), user)>>
    \o (IF award THEN <<Effect("award.delete", InstanceJson(id, current), user)>> ELSE << >>)
    \o <<Effect("BadgeAssertionRevoked", InstanceJson(id, current), user)>>

ReasonRequired == "The parameter revocation_reason is required to revoke a badge assertion"
AlreadyRevoked == "Assertion is already revoked."

\* A revoke that looks the assertion up before it validates the body.
RevokeRefusal_LookupFirst(user, assertionSlug, reason) ==
    IF ~AssertionResolved("DELETE", user, assertionSlug)
    THEN Response(404, "", << >>)
    ELSE IF reason = NoReason
    THEN Response(400, ReasonRequired, << >>)
    ELSE IF instances[assertionSlug].revoked = TRUE
    THEN Response(400, AlreadyRevoked, << >>)
    ELSE Response(0, "", << >>)

\* A revoke without the test of the revoked flag.
RevokeRefusal_Unchecked(user, assertionSlug, reason) ==
    IF reason = NoReason
    THEN Response(400, ReasonRequired, << >>)
    ELSE IF ~AssertionResolved("DELETE", user, assertionSlug)
    THEN Response(404, "", << >>)
    ELSE Response(0, "", << >>)

\* The early exits of delete, in order; status 0 when the revocation goes on.
RevokeRefusal(user, assertionSlug, reason) ==
    IF reason = NoReason
    THEN Response(400, ReasonRequired, << >>)
    ELSE IF ~AssertionResolved("DELETE", user, assertionSlug)
    THEN Response(404, "", << >>)
    ELSE IF instances[assertionSlug].revoked = TRUE
    THEN Response(400, AlreadyRevoked, << >>)
    ELSE Response(0, "", << >>)

BadgeInstanceDetail_delete(user, assertionSlug, reason, importable) ==
    LET q == Request("BadgeInstanceDetail.delete", user, "None", assertionSlug, reason) IN
    IF RevokeRefusal(user, assertionSlug, reason).status # 0
    THEN Answer(q, RevokeRefusal(user, assertionSlug, reason))
    ELSE LET current_assertion == RevokedRow(instances[assertionSlug], reason)
             award == AwardDeleted(assertionSlug, importable)
         IN /\ instances' = [instances EXCEPT ![assertionSlug] = current_assertion]
            /\ awards' = IF award THEN awards \ {assertionSlug} ELSE awards
            /\ effects' = RevokeEffects(assertionSlug, current_assertion, user, award)
            /\ revokedEvents' = [revokedEvents EXCEPT ![assertionSlug] = @ + 1]
            /\ revoked200' = [revoked200 EXCEPT ![assertionSlug] = @ + 1]
            /\ req' = q
            /\ resp' = Response(200, "Assertion has been revoked.", <<[slug |-> assertionSlug]>>)
            /\ UNCHANGED <<badgeclasses, badgebook, pc, local, inflight>>

\* The badgebook app is installed in the deployment.
BadgebookInstalled ==
    /\ ~badgebook
    /\ badgebook' = TRUE
    /\ req' = NoRequest
    /\ resp' = Response(0, "", << >>)
    /\ effects' = << >>
    /\ UNCHANGED <<badgeclasses, instances, awards, revokedEvents, revoked200, pc, local, inflight>>

\* badgebook records a BadgeObjectiveAward referencing an assertion.
AwardRecorded(id) ==
    /\ badgebook
    /\ id \in Existing
    /\ id \notin awards
    /\ ~instances[id].revoked
    /\ awards' = awards \cup {id}
    /\ req' = NoRequest
    /\ resp' = Response(0, "", << >>)
    /\ effects' = << >>
    /\ UNCHANGED <<badgeclasses, instances, badgebook, revokedEvents, revoked200, pc, local, inflight>>

\* ------------------------------------------------------------------------
\* BatchAssertions.post: issue one badge class to several recipients
\* ------------------------------------------------------------------------
BatchItems ==
    [recipient_identifier : {"r1@example.org"}, valid : BOOLEAN, create_notification : BOOLEAN]

\* Sequences over a set, of length n and of length at most n.
SeqsOfLen(S, n) == [1..n -> S]

SeqsUpTo(S, n) == UNION {SeqsOfLen(S, k) : k \in 0..n}

\* _include_create_notification mapped over the request's assertions.
IncludeCreateNotification(assertions, create_notification) ==
    [k \in 1..Len(assertions) |->
        [assertions[k] EXCEPT !.create_notification = create_notification]]

\* A validation that stops at the first item of the list.
BatchIsValid_FirstOnly(assertions) == assertions = << >> \/ assertions[1].valid

\* serializer.is_valid(raise_exception=True) with many=True: every item is valid.
BatchIsValid(assertions) == \A k \in 1..Len(assertions) : assertions[k].valid

\* What BadgeInstanceSerializer.save is given for the item that becomes
\* assertion id.
SavedItem(id, item) ==
    [slug |-> id, recipient_identifier |-> item.recipient_identifier,
     create_notification |-> item.create_notification]

BatchAssertions_post(user, issuerSlug, badgeSlug, list, create_notification) ==
    LET q == RequestWith("BatchAssertions.post", user, badgeSlug, 0, issuerSlug,
                         [assertions |-> list, create_notification |-> create_notification]) IN
    IF ~BadgeClassToIssue(user, issuerSlug, badgeSlug)
    THEN Answer(q, Response(404, "Issuer not found or current user lacks permission to issue this badge.", << >>))
    ELSE LET assertions == IncludeCreateNotification(list, create_notification)
             n == Len(assertions)
             first == Len(instances)
         IN IF ~BatchIsValid(assertions)
            THEN Answer(q, Response(400, "ValidationError", << >>))
            ELSE /\ first + n <= MaxInstances
                 /\ LET rows == [k \in 1..n |-> NewInstance(badgeSlug, assertions[k])]
                        data == [k \in 1..n |-> InstanceJson(first + k, rows[k])]
                    IN /\ instances' = instances \o rows
                       /\ effects' =
                              [k \in 1..n |-> Effect("save", SavedItem(first + k, assertions[k]), user)]
                              \o [k \in 1..n |-> Effect("BadgeInstanceCreated", data[k], user)]
                       /\ req' = q
                       /\ resp' = Response(201, "", data)
                 /\ UNCHANGED <<badgeclasses, awards, badgebook, revokedEvents, revoked200, pc, local, inflight>>

\* ------------------------------------------------------------------------
\* BadgeInstanceDetail.delete as concurrent requests: each request reads the
\* assertion, then checks and saves it, then cleans up and answers.
\* ------------------------------------------------------------------------
\* Lines 455-460: the reason is required, then get_object reads the row.
RevokeLookup(p, user, assertionSlug, reason) ==
    LET q == Request("BadgeInstanceDetail.delete", user, "None", assertionSlug, reason) IN
    /\ pc[p] = "idle"
    /\ req' = q
    /\ effects' = << >>
    /\ IF reason = NoReason
       THEN /\ resp' = Response(400, ReasonRequired, << >>)
            /\ UNCHANGED <<pc, local>>
       ELSE IF ~AssertionResolved("DELETE", user, assertionSlug)
       THEN /\ resp' = Response(404, "", << >>)
            /\ UNCHANGED <<pc, local>>
       ELSE /\ resp' = Response(0, "", << >>)
            /\ pc' = [pc EXCEPT ![p] = "fetched"]
            /\ local' = [local EXCEPT ![p] = [user |-> user, id |-> assertionSlug, reason |-> reason,
                                              current_assertion |-> instances[assertionSlug]]]
    /\ UNCHANGED <<badgeclasses, instances, awards, badgebook, revokedEvents, revoked200, inflight>>

\* Lines 462-470: the check of the row that was read, then the mutation and
\* the save of that row.
RevokeSave(p) ==
    LET l == local[p]
        q == Request("BadgeInstanceDetail.delete", l.user, "None", l.id, l.reason)
    IN
    /\ pc[p] = "fetched"
    /\ req' = q
    /\ IF l.current_assertion.revoked = TRUE
       THEN /\ resp' = Response(400, AlreadyRevoked, << >>)
            /\ effects' = << >>
            /\ pc' = [pc EXCEPT ![p] = "idle"]
            /\ local' = [local EXCEPT ![p] = Idle]
            /\ UNCHANGED instances
       ELSE LET current == RevokedRow(l.current_assertion, l.reason) IN
            /\ instances' = [instances EXCEPT ![l.id] = current]
            /\ effects' = <<Effect("image.delete", InstanceJson(l.id, current), l.user),
                            Effect("save", InstanceJson(l.id, current), l.user)>>
            /\ resp' = Response(0, "", << >>)
            /\ pc' = [pc EXCEPT ![p] = "saved"]
            /\ local' = [local EXCEPT ![p].current_assertion = current]
    /\ UNCHANGED <<badgeclasses, awards, badgebook, revokedEvents, revoked200, inflight>>

\* Lines 472-488: the badgebook cleanup, the event and the response.
RevokeRespond(p, importable) ==
    LET l == local[p]
        q == Request("BadgeInstanceDetail.delete", l.user, "None", l.id, l.reason)
        award == AwardDeleted(l.id, importable)
    IN
    /\ pc[p] = "saved"
    /\ req' = q
    /\ awards' = IF award THEN awards \ {l.id} ELSE awards
    /\ effects' = (IF award THEN <<Effect("award.delete", InstanceJson(l.id, l.current_assertion), l.user)>>
                   ELSE << >>)
                  \o <<Effect("BadgeAssertionRevoked", InstanceJson(l.id, l.current_assertion), l.user)>>
    /\ revokedEvents' = [revokedEvents EXCEPT ![l.id] = @ + 1]
    /\ revoked200' = [revoked200 EXCEPT ![l.id] = @ + 1]
    /\ resp' = Response(200, "Assertion has been revoked.", <<[slug |-> l.id]>>)
    /\ pc' = [pc EXCEPT ![p] = "idle"]
    /\ local' = [local EXCEPT ![p] = Idle]
    /\ UNCHANGED <<badgeclasses, instances, badgebook, inflight>>

\* ------------------------------------------------------------------------
\* BadgeInstanceList.post and BadgeClassDetail.delete as concurrent requests:
\* each reads and checks the badge class in one step and writes in the next.
\* ------------------------------------------------------------------------
\* The issue requests that have read their badge class and not yet saved.
Issuing == {w \in Workers : inflight[w].at = "issue"}

\* Lines 320-333: get_object on the badge class, then is_valid.
IssueLookup(w, user, issuerSlug, badgeSlug, data) ==
    LET q == Request("BadgeInstanceList.post", user, badgeSlug, 0, issuerSlug) IN
    /\ inflight[w].at = "idle"
    /\ req' = q
    /\ effects' = << >>
    /\ IF ~BadgeClassToIssue(user, issuerSlug, badgeSlug)
       THEN /\ resp' = Response(404, "Issuer not found or current user lacks permission to issue this badge.", << >>)
            /\ UNCHANGED inflight
       ELSE IF ~data.valid
       THEN /\ resp' = Response(400, "ValidationError", << >>)
            /\ UNCHANGED inflight
       ELSE /\ Len(instances) + Cardinality(Issuing) < MaxInstances
            /\ resp' = Response(0, "", << >>)
            /\ inflight' = [inflight EXCEPT ![w] =
                   [at |-> "issue", user |-> user, slug |-> badgeSlug,
                    current_badgeclass |-> badgeclasses[badgeSlug],
                    recipient_identifier |-> data.recipient_identifier]]
    /\ UNCHANGED <<badgeclasses, instances, awards, badgebook, revokedEvents, revoked200, pc, local>>

\* Lines 335-338: save creates the assertion of the badge class that was
\* read, then the event and the response.
IssueSave(w) ==
    LET l == inflight[w]
        row == [badgeclass |-> l.slug, issuer |-> l.current_badgeclass.issuer,
                recipient_identifier |-> l.recipient_identifier,
                revoked |-> FALSE, revocation_reason |-> NoReason, image |-> "baked"]
        id == Len(instances) + 1
        json == InstanceJson(id, row)
    IN
    /\ l.at = "issue"
    /\ instances' = Append(instances, row)
    /\ effects' = <<Effect("save", json, l.user), Effect("BadgeInstanceCreated", json, l.user)>>
    /\ req' = Request("BadgeInstanceList.post", l.user, l.slug, id, l.current_badgeclass.issuer)
    /\ resp' = Response(201, "", <<json>>)
    /\ inflight' = [inflight EXCEPT ![w] = Resting]
    /\ UNCHANGED <<badgeclasses, awards, badgebook, revokedEvents, revoked200, pc, local>>

\* Lines 209-221: the lookup, the permission check and the three counts.
DeleteCheck(w, user, badgeSlug) ==
    LET q == Request("BadgeClassDetail.delete", user, badgeSlug, 0, "None") IN
    /\ inflight[w].at = "idle"
    /\ req' = q
    /\ effects' = << >>
    /\ IF ~BadgeClassResolved("DELETE", user, badgeSlug)
       THEN /\ resp' = BadgeClassNotFound(q.op, badgeSlug)
            /\ UNCHANGED inflight
       ELSE IF DeleteRefusal(badgeSlug) # Deletable
       THEN /\ resp' = Response(400, DeleteRefusal(badgeSlug), << >>)
            /\ UNCHANGED inflight
       ELSE /\ resp' = Response(0, "", << >>)
            /\ inflight' = [inflight EXCEPT ![w] =
                   [at |-> "delete", user |-> user, slug |-> badgeSlug,
                    current_badgeclass |-> badgeclasses[badgeSlug],
                    recipient_identifier |-> "None"]]
    /\ UNCHANGED <<badgeclasses, instances, awards, badgebook, revokedEvents, revoked200, pc, local>>

\* Lines 222-225: the snapshot, the delete of the row that was read, the
\* event and the response.
DeleteCommit(w) ==
    LET l == inflight[w]
        old_badgeclass == BadgeClassJson(l.slug, l.current_badgeclass)
    IN
    /\ l.at = "delete"
    /\ badgeclasses' = [s \in DOMAIN badgeclasses \ {l.slug} |-> badgeclasses[s]]
    /\ effects' = <<Effect("delete", old_badgeclass, l.user),
                    Effect("BadgeClassDeleted", old_badgeclass, l.user)>>
    /\ req' = Request("BadgeClassDetail.delete", l.user, l.slug, 0, "None")
    /\ resp' = Response(200, "Badge has been deleted.", <<[slug |-> l.slug]>>)
    /\ inflight' = [inflight EXCEPT ![w] = Resting]
    /\ UNCHANGED <<instances, awards, badgebook, revokedEvents, revoked200, pc, local>>

\* ------------------------------------------------------------------------
\* Specifications
\* ------------------------------------------------------------------------
\* Requests that define badge classes, shared by the specifications.
DefineBadgeClass ==
    \E u \in Users, d \in BadgeClassPayloads : BadgeClassList_post(u, HomeIssuer(d.slug), d)

\* Badge classes: definition, detail, update, deletion, pathway use, issuance.
BadgeClassNext ==
    \/ DefineBadgeClass
    \/ \E u \in Users, s \in BadgeSlugs : BadgeClassDetail_get(u, s)
    \/ \E u \in Users, s \in BadgeSlugs : BadgeClassDetail_delete(u, s)
    \/ \E u \in Users, s \in BadgeSlugs, d \in PutPayloads : BadgeClassDetail_put(u, s, d)
    \/ \E s \in BadgeSlugs, f \in {"requirement", "badge"}, n \in 0..1 : PathwayReference(s, f, n)
    \/ \E u \in Users, s \in BadgeSlugs, d \in [recipient_identifier : {"r1@example.org"}, valid : {TRUE}] :
           BadgeInstanceList_post(u, HomeIssuer(s), s, d)

SpecBadgeClass == Init /\ [][BadgeClassNext]_vars

\* Issuance and revocation, one request at a time.
RevokeNext ==
    \/ DefineBadgeClass
    \/ \E u \in Users, i \in Issuers, s \in BadgeSlugs,
          d \in [recipient_identifier : {"r1@example.org"}, valid : BOOLEAN] :
           BadgeInstanceList_post(u, i, s, d)
    \/ \E u \in Users, a \in InstanceIds, r \in Reasons \cup {NoReason}, m \in BOOLEAN :
           BadgeInstanceDetail_delete(u, a, r, m)
    \/ BadgebookInstalled
    \/ \E a \in InstanceIds : AwardRecorded(a)

SpecRevoke == Init /\ [][RevokeNext]_vars

\* Issuance, revocation and the read endpoints over assertions.
QueryNext ==
    \/ DefineBadgeClass
    \/ \E u \in Users, s \in BadgeSlugs, d \in [recipient_identifier : Recipients, valid : {TRUE}] :
           BadgeInstanceList_post(u, HomeIssuer(s), s, d)
    \/ \E u \in Users, a \in InstanceIds :
           BadgeInstanceDetail_delete(u, a, "policy violation", TRUE)
    \/ \E u \in Users, i \in Issuers, s \in BadgeSlugs : BadgeInstanceList_get(u, i, s)
    \/ \E u \in Users, i \in Issuers, r \in Recipients \cup {NoRecipient} :
           IssuerBadgeInstanceList_get(u, i, r)
    \/ \E u \in Users, a \in InstanceIds : BadgeInstanceDetail_get(u, a)

SpecQuery == Init /\ [][QueryNext]_vars

\* Single and batch issuance.
BatchNext ==
    \/ DefineBadgeClass
    \/ \E u \in Users, s \in BadgeSlugs, d \in [recipient_identifier : {"r1@example.org"}, valid : {TRUE}] :
           BadgeInstanceList_post(u, HomeIssuer(s), s, d)
    \/ \E u \in Users, s \in BadgeSlugs, l \in SeqsUpTo(BatchItems, MaxBatch), c \in BOOLEAN :
           BatchAssertions_post(u, HomeIssuer(s), s, l, c)

SpecBatch == Init /\ [][BatchNext]_vars

\* Revocation requests that run concurrently, step by step.
ConcNext ==
    \/ \E d \in [slug : {"excellence"}, name : {"Excellence"}, image : {"png-a"}, valid : {TRUE}] :
           BadgeClassList_post("alice", "acme", d)
    \/ \E d \in [recipient_identifier : {"r1@example.org"}, valid : {TRUE}] :
           BadgeInstanceList_post("alice", "acme", "excellence", d)
    \/ \E p \in Revokers, u \in Users, a \in InstanceIds, r \in Reasons \cup {NoReason} :
           RevokeLookup(p, u, a, r)
    \/ \E p \in Revokers : RevokeSave(p)
    \/ \E p \in Revokers, m \in BOOLEAN : RevokeRespond(p, m)

SpecConc == Init /\ [][ConcNext]_vars

\* Issue, batch issue, revoke and badge class delete requests, with the issue
\* and delete requests interleaved step by step.
LifecycleNext ==
    \/ \E u \in Users, d \in [slug : BadgeSlugs, name : {"Excellence"}, image : {"png-a"}, valid : {TRUE}] :
           BadgeClassList_post(u, HomeIssuer(d.slug), d)
    \/ \E w \in Workers, u \in Users, s \in BadgeSlugs,
          d \in [recipient_identifier : {"r1@example.org"}, valid : BOOLEAN] :
           IssueLookup(w, u, HomeIssuer(s), s, d)
    \/ \E w \in Workers : IssueSave(w)
    \/ \E w \in Workers, u \in Users, s \in BadgeSlugs : DeleteCheck(w, u, s)
    \/ \E w \in Workers : DeleteCommit(w)
    \/ \E u \in Users, s \in BadgeSlugs,
          l \in SeqsUpTo([recipient_identifier : {"r1@example.org"}, valid : BOOLEAN,
                          create_notification : {FALSE}], MaxBatch) :
           BatchAssertions_post(u, HomeIssuer(s), s, l, FALSE)
    \/ \E u \in Users, a \in InstanceIds :
           BadgeInstanceDetail_delete(u, a, "policy violation", TRUE)

SpecLifecycle == Init /\ [][LifecycleNext]_vars

\* ------------------------------------------------------------------------
\* Properties
\* ------------------------------------------------------------------------
\* The positions in a list of side effects that hold an effect of one kind.
Events(eff, kind) == {k \in DOMAIN eff : eff[k].kind = kind}

\* C1: a delete by a caller who may edit the badge class deletes it and
\* answers 200 exactly when it has no assertion, is no pathway completion
\* requirement and is no pathway completion badge; otherwise it answers 400
\* with the message of the first failing check in that order, the badge class
\* stays, and no BadgeClassDeleted event is logged.
C1_DeleteIffUnused ==
    [][(/\ req'.op = "BadgeClassDetail.delete"
        /\ req'.slug \in DOMAIN badgeclasses
        /\ Role(req'.user, badgeclasses[req'.slug].issuer) \in {"owner", "editor"})
       => LET s == req'.slug
              issued == recipient_count(s) > 0
              required == badgeclasses[s].pathway_elements > 0
              completion == badgeclasses[s].completion_elements > 0
          IN IF ~issued /\ ~required /\ ~completion
             THEN /\ resp'.status = 200
                  /\ s \notin DOMAIN badgeclasses'
                  /\ Cardinality(Events(effects', "BadgeClassDeleted")) = 1
             ELSE /\ resp'.status = 400
                  /\ resp'.msg = (IF issued THEN AlreadyIssued
                                  ELSE IF required THEN UsedAsRequirement
                                  ELSE UsedAsCompletionBadge)
                  /\ badgeclasses' = badgeclasses
                  /\ Events(effects', "BadgeClassDeleted") = {}
                  /\ Events(effects', "delete") = {}]_vars

\* C1 witness: a delete was refused as a completion badge use, the third
\* check, on a badge class that has no assertion and is no requirement.
C1_Witness ==
    /\ req.op = "BadgeClassDetail.delete"
    /\ resp.status = 400
    /\ resp.msg = UsedAsCompletionBadge
    /\ req.slug \in DOMAIN badgeclasses
    /\ recipient_count(req.slug) = 0
    /\ badgeclasses[req.slug].pathway_elements = 0

\* C2: revocation is one way. A revoked assertion keeps every field, its
\* revocation_reason included, across any later request, and a later revoke
\* of it with a reason by a caller allowed to revoke answers 400 "Assertion
\* is already revoked.", and logs no BadgeAssertionRevoked event.
C2_RevocationOneWay ==
    [][\A a \in 1..Len(instances) :
          instances[a].revoked =>
             /\ a \in 1..Len(instances')
             /\ instances'[a] = instances[a]
             /\ (/\ req'.op = "BadgeInstanceDetail.delete"
                 /\ req'.id = a
                 /\ req'.arg # NoReason
                 /\ Role(req'.user, instances[a].issuer) \in {"owner", "editor"})
                => /\ resp'.status = 400
                   /\ resp'.msg = AlreadyRevoked
                   /\ effects' = << >>
                   /\ revokedEvents' = revokedEvents]_vars

\* C2 witness: a second revoke, with another reason, was refused and the
\* assertion still carries the first reason.
C2_Witness ==
    /\ req.op = "BadgeInstanceDetail.delete"
    /\ resp.status = 400
    /\ resp.msg = AlreadyRevoked
    /\ instances[req.id].revoked
    /\ req.arg = "issued in error"
    /\ instances[req.id].revocation_reason = "policy violation"

\* C3: after a revoke with reason r answered 200 "Assertion <slug> has been
\* revoked.", the stored assertion is revoked with reason r and has no baked
\* image, exactly one BadgeAssertionRevoked event was logged for it, the event
\* carries the assertion as stored and the caller, and it was logged after
\* the save.
C3_RevokePostcondition ==
    (req.op = "BadgeInstanceDetail.delete" /\ resp.status = 200) =>
        LET a == req.id
            logged == Events(effects, "BadgeAssertionRevoked")
            saved == Events(effects, "save")
        IN /\ resp.msg = "Assertion has been revoked."
           /\ resp.data = <<[slug |-> a]>>
           /\ a \in 1..Len(instances)
           /\ instances[a].revoked
           /\ instances[a].revocation_reason = req.arg
           /\ req.arg \in Reasons
           /\ instances[a].image = NoImage
           /\ revokedEvents[a] = 1
           /\ Cardinality(logged) = 1
           /\ \A k \in logged :
                 /\ effects[k].obj = InstanceJson(a, instances[a])
                 /\ effects[k].user = req.user
                 /\ \E j \in saved : j < k /\ effects[j].obj = InstanceJson(a, instances[a])

\* C3 witness: a revoke for "policy violation" answered 200, with the
\* badgebook award of the assertion removed on the way.
C3_Witness ==
    /\ req.op = "BadgeInstanceDetail.delete"
    /\ resp.status = 200
    /\ req.arg = "policy violation"
    /\ instances[req.id].revoked
    /\ Events(effects, "award.delete") # {}

\* C4: a revoke without revocation_reason is a validation error whatever the
\* assertion is (stored or not, revoked or not, the caller's or not), and it
\* changes no assertion, image or award record and logs no event.
C4_ReasonRequiredFirst ==
    [][(req'.op = "BadgeInstanceDetail.delete" /\ req'.arg = NoReason)
       => /\ resp' = Response(400, ReasonRequired, << >>)
          /\ effects' = << >>
          /\ UNCHANGED <<badgeclasses, instances, awards, revokedEvents, revoked200>>]_vars

\* C4 witness: a revoke without a reason of an assertion that is not stored
\* was answered 400, not 404.
C4_Witness ==
    /\ req.op = "BadgeInstanceDetail.delete"
    /\ req.arg = NoReason
    /\ req.id \notin 1..Len(instances)
    /\ resp.status = 400
    /\ resp.msg = ReasonRequired
    /\ \E a \in 1..Len(instances) : instances[a].revoked

\* C5: batch issuance is all or nothing. With an invalid item in the batch
\* nothing is stored and no BadgeInstanceCreated event is logged; with every
\* item valid exactly one assertion per item is stored, each saved with the
\* create_notification of the batch, and exactly one event per new assertion
\* is logged.
C5_BatchAllOrNothing ==
    [][(/\ req'.op = "BatchAssertions.post"
        /\ req'.slug \in DOMAIN badgeclasses
        /\ badgeclasses[req'.slug].issuer = req'.arg
        /\ Role(req'.user, req'.arg) # "none")
       => LET list == req'.body.assertions
              n == Len(list)
              flag == req'.body.create_notification
              first == Len(instances)
              created == Events(effects', "BadgeInstanceCreated")
              saved == Events(effects', "save")
          IN IF \E k \in 1..n : ~list[k].valid
             THEN /\ resp'.status = 400
                  /\ instances' = instances
                  /\ created = {}
                  /\ saved = {}
             ELSE /\ resp'.status = 201
                  /\ Len(instances') = first + n
                  /\ SubSeq(instances', 1, first) = instances
                  /\ Cardinality(created) = n
                  /\ Cardinality(saved) = n
                  /\ \A j \in saved : effects'[j].obj.create_notification = flag
                  /\ \A k \in 1..n :
                        /\ instances'[first + k].badgeclass = req'.slug
                        /\ instances'[first + k].recipient_identifier = list[k].recipient_identifier
                        /\ ~instances'[first + k].revoked
                        /\ Cardinality({j \in created : effects'[j].obj.slug = first + k}) = 1
                        /\ Cardinality({j \in saved : effects'[j].obj.slug = first + k}) = 1]_vars

\* C5 witness: a batch whose first item is valid and whose second is not was
\* answered 400 while assertions issued earlier are the only ones stored.
C5_Witness ==
    /\ req.op = "BatchAssertions.post"
    /\ resp.status = 400
    /\ Len(req.body.assertions) = 2
    /\ req.body.assertions[1].valid
    /\ ~req.body.assertions[2].valid
    /\ Len(instances) = 1

\* C6: neither listing returns a revoked assertion, and the listing of a
\* badge class the caller may list answers 200 with an empty list when the
\* badge class has no assertion that is not revoked.
C6_ListingsExcludeRevoked ==
    /\ (req.op \in {"BadgeInstanceList.get", "IssuerBadgeInstanceList.get"} /\ resp.status = 200)
       => \A k \in DOMAIN resp.data :
             /\ ~resp.data[k].revoked
             /\ resp.data[k].slug \in 1..Len(instances)
             /\ ~instances[resp.data[k].slug].revoked
    /\ (/\ req.op = "BadgeInstanceList.get"
        /\ req.slug \in DOMAIN badgeclasses
        /\ badgeclasses[req.slug].issuer = req.arg
        /\ Role(req.user, req.arg) # "none"
        /\ \A a \in 1..Len(instances) :
              instances[a].badgeclass = req.slug => instances[a].revoked)
       => (resp.status = 200 /\ resp.data = << >>)

\* C6 witness: the listing of a badge class whose only assertion is revoked
\* answered 200 with an empty list.
C6_Witness ==
    /\ req.op = "BadgeInstanceList.get"
    /\ resp.status = 200
    /\ resp.data = << >>
    /\ \E a \in 1..Len(instances) : instances[a].badgeclass = req.slug /\ instances[a].revoked

\* C7: a PUT whose image is neither an uploaded file nor a data URI (a URL,
\* or no image at all) saves the other fields and leaves the stored image;
\* the stored image is replaced only by an uploaded file or a data URI.
C7_ImageKeptUnlessUploaded ==
    [][(/\ req'.op = "BadgeClassDetail.put"
        /\ req'.slug \in DOMAIN badgeclasses
        /\ Role(req'.user, badgeclasses[req'.slug].issuer) \in {"owner", "editor"}
        /\ req'.body.valid)
       => LET s == req'.slug
              image == req'.body.image
          IN /\ s \in DOMAIN badgeclasses'
             /\ badgeclasses'[s].name = req'.body.name
             /\ badgeclasses'[s].image =
                   (IF image.kind \in {"uploaded", "datauri"}
                    THEN image.content ELSE badgeclasses[s].image)]_vars

\* C8: the detail of an assertion is returned only to a caller with a role
\* on the assertion's issuer; for a stored assertion of an issuer on which
\* the caller has no role the answer is 404.
C8_DetailOnlyForStaff ==
    (req.op = "BadgeInstanceDetail.get" /\ req.id \in 1..Len(instances))
    => /\ resp.status = 200 => Role(req.user, instances[req.id].issuer) # "none"
       /\ Role(req.user, instances[req.id].issuer) = "none" => resp = Response(404, "", << >>)

C10_AtMostOneRevoke ==
    \A a \in InstanceIds : revoked200[a] <= 1 /\ revokedEvents[a] <= 1

\* C11: every stored assertion refers to a stored badge class: no step
\* deletes a badge class that has an assertion, no step creates an assertion
\* of a badge class that is not stored, and after every step each assertion's
\* badge class is stored.
C11_AssertionsKeepTheirBadgeClass ==
    [][/\ \A s \in DOMAIN badgeclasses \ DOMAIN badgeclasses' : recipient_count(s) = 0
       /\ \A a \in (Len(instances) + 1)..Len(instances') :
             instances'[a].badgeclass \in DOMAIN badgeclasses
       /\ \A a \in 1..Len(instances') :
             instances'[a].badgeclass \in DOMAIN badgeclasses']_vars
====
